---- MODULE Spec2Model ----
(***************************************************************************)
(* Model of the bank-statement parsing core of bank-statement-parser:      *)
(* the lexical primitives of common_parsers.rs and the three statement     *)
(* grammars (Bank of America credit, Bank of America debit, Chase credit). *)
(*                                                                         *)
(* A text is a sequence of tokens.  A token is one character ("1", ".",    *)
(* " ", "\n") or one literal phrase of the grammar taken as a unit (a      *)
(* section header such as "Payments and Other Credits", a month name, a    *)
(* description word).  Every parser is an operator from the remaining      *)
(* text to a parse result [st, rest, val, kind]: st is "ok" (nom's Ok),    *)
(* "err" (nom's Err, kind = the ErrorKind) or "panic" (an unwrap() on      *)
(* None, or a slice out of range, which unwinds through every combinator). *)
(***************************************************************************)
EXTENDS Integers, Sequences, FiniteSets, TLC

VARIABLES pc, doc, input, result

vars == <<pc, doc, input, result>>

(***************************************************************************)
(* Bounds of the model.                                                    *)
(***************************************************************************)
\* longest text handed to dollar_amount on its own
MaxLen == 6
\* most transaction records written into one statement
MaxRecs == 2
\* most continuation lines written under one Chase transaction
MaxLines == 2
\* most spaces written after the account number of a credit statement
MaxSpaces == 2
\* most words, amounts and dates written into one debit description
MaxItems == 2

(***************************************************************************)
(* Parse results, and Rust's `?`: Then(r, K) is `let v = r?; K(v)`.  The   *)
(* result r is computed once and bound to v.                               *)
(***************************************************************************)
Ok(rest, val) == [st |-> "ok", rest |-> rest, val |-> val, kind |-> "none"]

Err(kind) == [st |-> "err", rest |-> <<>>, val |-> <<>>, kind |-> kind]

Panic == [st |-> "panic", rest |-> <<>>, val |-> <<>>, kind |-> "panic"]

NoResult == [st |-> "none", rest |-> <<>>, val |-> <<>>, kind |-> "none"]

Only(S) == CHOOSE v \in S : TRUE

Then(r, K(_)) == Only({IF v.st # "ok" THEN v ELSE K(v) : v \in {r}})

\* the least element of a set of naturals; -1 for the empty set
FirstIn(S) == IF S = {} THEN -1 ELSE CHOOSE i \in S : \A j \in S : i <= j

(***************************************************************************)
(* Characters.                                                             *)
(***************************************************************************)
DigitValue ==
  [c \in {"0", "1", "2", "3", "4", "5", "6", "7", "8", "9"} |->
     CASE c = "0" -> 0 [] c = "1" -> 1 [] c = "2" -> 2 [] c = "3" -> 3
       [] c = "4" -> 4 [] c = "5" -> 5 [] c = "6" -> 6 [] c = "7" -> 7
       [] c = "8" -> 8 [] c = "9" -> 9]

IsDigit(c) == c \in DOMAIN DigitValue

Spaces == {" ", "\n", "\t", "\r"}

Drop(s, n) == SubSeq(s, n + 1, Len(s))

Take(s, n) == SubSeq(s, 1, n)

\* length of the longest prefix of s whose tokens are all in set
PrefixLen(s, set) ==
  CHOOSE n \in 0..Len(s) :
    /\ \A i \in 1..n : s[i] \in set
    /\ n = Len(s) \/ s[n + 1] \notin set

RECURSIVE ToNat(_)
\* str::parse of a digit string
ToNat(ds) ==
  IF ds = <<>> THEN 0
  ELSE ToNat(Take(ds, Len(ds) - 1)) * 10 + DigitValue[ds[Len(ds)]]

RECURSIVE Concat(_)
Concat(ss) == IF ss = <<>> THEN <<>> ELSE Head(ss) \o Concat(Tail(ss))

(***************************************************************************)
(* nom combinators, as the grammars use them.                              *)
(***************************************************************************)
IsPrefix(t, s) == Len(t) <= Len(s) /\ Take(s, Len(t)) = t

tag(t, s) == IF IsPrefix(t, s) THEN Ok(Drop(s, Len(t)), t) ELSE Err("Tag")

char(c, s) == IF s # <<>> /\ Head(s) = c THEN Ok(Tail(s), c) ELSE Err("Char")

\* opt(char(c)): val tells whether c was there
opt_char(c, s) ==
  IF s # <<>> /\ Head(s) = c THEN Ok(Tail(s), TRUE) ELSE Ok(s, FALSE)

newline(s) == char("\n", s)

take_while(set, s) ==
  Only({Ok(Drop(s, n), Take(s, n)) : n \in {PrefixLen(s, set)}})

digit1(s) ==
  Then(take_while(DOMAIN DigitValue, s), LAMBDA d :
    IF d.val = <<>> THEN Err("Digit") ELSE d)

multispace0(s) == take_while(Spaces, s)

multispace1(s) ==
  Then(take_while(Spaces, s), LAMBDA sp :
    IF sp.val = <<>> THEN Err("MultiSpace") ELSE sp)

u32(s) == Then(digit1(s), LAMBDA d : Ok(d.rest, ToNat(d.val)))

i32(s) ==
  Then(opt_char("-", s), LAMBDA neg :
  Then(IF neg.val THEN neg ELSE opt_char("+", s), LAMBDA sign :
  Then(digit1(sign.rest), LAMBDA d :
    Ok(d.rest, IF neg.val THEN 0 - ToNat(d.val) ELSE ToNat(d.val)))))

\* number of tokens before the first occurrence of t in s; -1 when there is none
FindFirst(t, s) ==
  FirstIn({i \in 0..(Len(s) - Len(t)) : SubSeq(s, i + 1, i + Len(t)) = t})

take_until(t, s) ==
  Only({IF k < 0 THEN Err("TakeUntil") ELSE Ok(Drop(s, k), Take(s, k)) :
          k \in {FindFirst(t, s)}})

take_until_including(t, s) ==
  Only({IF k < 0 THEN Err("TakeUntil") ELSE Ok(Drop(s, k + Len(t)), <<>>) :
          k \in {FindFirst(t, s)}})

(***************************************************************************)
(* common_parsers.rs: the signed currency amount.                          *)
(***************************************************************************)
RECURSIVE separated_list_more(_, _)
\* the loop of separated_list0(char(','), digit1) after the first group:
\* a separator not followed by a group is left unconsumed
separated_list_more(s, acc) ==
  IF s = <<>> \/ Head(s) # "," THEN Ok(s, acc)
  ELSE Only({IF d.st # "ok" THEN Ok(s, acc)
             ELSE separated_list_more(d.rest, Append(acc, d.val)) :
               d \in {digit1(Tail(s))}})

separated_list0(s) ==
  Only({IF d.st # "ok" THEN Ok(s, <<>>)
        ELSE separated_list_more(d.rest, <<d.val>>) : d \in {digit1(s)}})

\* dollar_amount with the factor 100 on the cents instead of the dollars
dollar_amount_cents_first(input_) ==
  Then(opt_char("-", input_), LAMBDA negate :
  Then(opt_char("+", negate.rest), LAMBDA plus :
  Then(opt_char("$", plus.rest), LAMBDA dollar :
  Then(separated_list0(dollar.rest), LAMBDA dollars_strs :
  Then(char(".", dollars_strs.rest), LAMBDA dot :
  Then(digit1(dot.rest), LAMBDA cents_str :
    Only({Ok(cents_str.rest, IF negate.val THEN 0 - abs_amount ELSE abs_amount) :
            abs_amount \in
              {(IF Len(dollars_strs.val) > 0
                THEN ToNat(Concat(dollars_strs.val)) ELSE 0)
               + ToNat(cents_str.val) * 100}})))))))

dollar_amount(input_) ==
  Then(opt_char("-", input_), LAMBDA negate :
  Then(opt_char("+", negate.rest), LAMBDA plus :
  Then(opt_char("$", plus.rest), LAMBDA dollar :
  Then(separated_list0(dollar.rest), LAMBDA dollars_strs :
  Then(char(".", dollars_strs.rest), LAMBDA dot :
  Then(digit1(dot.rest), LAMBDA cents_str :
    Only({Ok(cents_str.rest, IF negate.val THEN 0 - abs_amount ELSE abs_amount) :
            abs_amount \in
              {(IF Len(dollars_strs.val) > 0
                THEN ToNat(Concat(dollars_strs.val)) ELSE 0) * 100
               + ToNat(cents_str.val)}})))))))

(***************************************************************************)
(* Specification of dollar_amount alone: every text over the amount        *)
(* alphabet of at most MaxLen characters is parsed.                        *)
(***************************************************************************)
AmountAlphabet == {"-", "+", "$", ",", ".", "0", "5"}

AmountTexts == UNION {[1..n -> AmountAlphabet] : n \in 0..MaxLen}

NoDoc == [fmt |-> "none"]

InitAmount ==
  /\ pc = "ready"
  /\ doc = NoDoc
  /\ input \in AmountTexts
  /\ result = NoResult

DollarAmount ==
  /\ pc = "ready"
  /\ result' = dollar_amount(input)
  /\ pc' = "done"
  /\ UNCHANGED <<doc, input>>

NextAmount == DollarAmount

SpecAmount == InitAmount /\ [][NextAmount]_vars

(***************************************************************************)
(* What the amount grammar says of the text dollar_amount consumed.        *)
(***************************************************************************)
\* the characters dollar_amount consumed
Consumed == Take(input, Len(input) - Len(result.rest))

\* position of the decimal point in the consumed text
PointAt == FindFirst(<<".">>, Consumed) + 1

DigitsOnly(s) == SelectSeq(s, IsDigit)

\* the integer formed by the digit groups with the separators removed
DigitsBeforePoint == ToNat(DigitsOnly(Take(Consumed, PointAt - 1)))

DigitsAfterPoint == ToNat(DigitsOnly(Drop(Consumed, PointAt)))

AmountSign == IF input # <<>> /\ Head(input) = "-" THEN -1 ELSE 1

\* the number of digits that follow the decimal point in the text
FractionDigits == PrefixLen(Drop(input, PointAt), DOMAIN DigitValue)

\* the sign characters the text starts with
LeadingSigns == PrefixLen(input, {"-", "+"})

\* C7: every accepted text yields sign * (digits_before_point * 100 +
\* digits_after_point), the sign being -1 exactly when the text starts with
\* '-'; a text with no digits before the point is zero dollars plus cents
\* (.50 yields 50).
C7_AmountValue ==
  /\ (pc = "done" /\ result.st = "ok") =>
       result.val = AmountSign * (DigitsBeforePoint * 100 + DigitsAfterPoint)
  /\ (pc = "done" /\ input = <<".", "5", "0">>) =>
       (result.st = "ok" /\ result.val = 50 /\ result.rest = <<>>)

\* a negative amount with a thousands separator has been accepted
C7_Witness ==
  /\ pc = "done"
  /\ result.st = "ok"
  /\ input = <<"-", "5", ",", "0", ".", "5">>
  /\ result.val = -5005

\* C8: an accepted text has at most one leading sign character and exactly
\* two fraction digits; a fraction of one digit or of three or more digits
\* never yields an amount.
C8_AmountGrammar ==
  (pc = "done" /\ result.st = "ok") =>
     (LeadingSigns <= 1 /\ FractionDigits = 2)

(***************************************************************************)
(* Calendar dates (chrono's NaiveDate::from_ymd_opt) and year inference.   *)
(***************************************************************************)
IsLeapYear(y) == (y % 4 = 0 /\ y % 100 # 0) \/ y % 400 = 0

DaysInMonth(y, m) ==
  IF m = 2 THEN (IF IsLeapYear(y) THEN 29 ELSE 28)
  ELSE IF m \in {4, 6, 9, 11} THEN 30 ELSE 31

NoneDate == [some |-> FALSE, year |-> 0, month |-> 0, day |-> 0]

from_ymd_opt(y, m, d) ==
  IF m \in 1..12 /\ d >= 1 /\ d <= DaysInMonth(y, m)
  THEN [some |-> TRUE, year |-> y, month |-> m, day |-> d]
  ELSE NoneDate

\* infer_year with <= in place of <
infer_year_le(month, day, start_date) ==
  from_ymd_opt(IF month <= start_date.month
               THEN start_date.year + 1 ELSE start_date.year, month, day)

infer_year(month, day, start_date) ==
  from_ymd_opt(IF month < start_date.month
               THEN start_date.year + 1 ELSE start_date.year, month, day)

\* map_opt(p, f): the parse fails when f gives None
map_opt(rest, date) == IF date.some THEN Ok(rest, date) ELSE Err("MapOpt")

\* p.unwrap(): the process panics when the date is None
unwrap(rest, date) == IF date.some THEN Ok(rest, date) ELSE Panic

\* separated_pair(u32, char('/'), u32)
month_day(s) ==
  Then(u32(s), LAMBDA m :
  Then(char("/", m.rest), LAMBDA sl :
  Then(u32(sl.rest), LAMBDA d :
    Ok(d.rest, [month |-> m.val, day |-> d.val]))))

\* map_opt(month_day, |(month, day)| infer_year(month, day, start_date)):
\* the date and the posting date of a credit-card transaction
inferred_date(start_date, s) ==
  Then(month_day(s), LAMBDA md :
    map_opt(md.rest, infer_year(md.val.month, md.val.day, start_date)))

(***************************************************************************)
(* Writing numbers, dates and amounts as text.                             *)
(***************************************************************************)
DigitChars == <<"0", "1", "2", "3", "4", "5", "6", "7", "8", "9">>

RECURSIVE FormatNat(_)
FormatNat(n) ==
  IF n < 10 THEN <<DigitChars[n + 1]>>
  ELSE Append(FormatNat(n \div 10), DigitChars[(n % 10) + 1])

FormatMonthDay(m, d) == FormatNat(m) \o <<"/">> \o FormatNat(d)

(***************************************************************************)
(* Specification of the year inference: a month/day text of a transaction  *)
(* is resolved against each statement start date.                          *)
(***************************************************************************)
StartDates ==
  {from_ymd_opt(y, m, d) : y \in {2023, 2024}, m \in 1..12, d \in {1, 28}}

InitDate ==
  /\ pc = "ready"
  /\ \E m \in 1..13, d \in 1..31, r \in StartDates :
       /\ doc = [fmt |-> "date", month |-> m, day |-> d, start_date |-> r]
       /\ input = FormatMonthDay(m, d)
  /\ result = NoResult

InferDate ==
  /\ pc = "ready"
  /\ doc.fmt = "date"
  /\ result' = inferred_date(doc.start_date, input)
  /\ pc' = "done"
  /\ UNCHANGED <<doc, input>>

NextDate == InferDate

SpecDate == InitDate /\ [][NextDate]_vars

\* the year the claim gives the written month against the start date
ClaimedYear ==
  IF doc.month < doc.start_date.month
  THEN doc.start_date.year + 1 ELSE doc.start_date.year

\* C6: for every month 1..12 and day valid in the resolved year, the date
\* resolves to the start year + 1 when the month is before the start month
\* and to the start year otherwise; against a December start date every
\* December date resolves to the start year and every January date to the
\* start year + 1.
C6_YearInference ==
  (pc = "done" /\ doc.fmt = "date") =>
     /\ (doc.month \in 1..12 /\ doc.day <= DaysInMonth(ClaimedYear, doc.month)) =>
          /\ result.st = "ok"
          /\ result.val.month = doc.month
          /\ result.val.day = doc.day
          /\ doc.month < doc.start_date.month =>
               result.val.year = doc.start_date.year + 1
          /\ doc.month >= doc.start_date.month =>
               result.val.year = doc.start_date.year
     /\ (result.st = "ok" /\ doc.start_date.month = 12) =>
          /\ doc.month = 12 => result.val.year = doc.start_date.year
          /\ doc.month = 1 => result.val.year = doc.start_date.year + 1

\* a January transaction of a statement that starts in December 2023
C6_Witness ==
  /\ pc = "done"
  /\ doc.fmt = "date"
  /\ doc.start_date.month = 12
  /\ doc.start_date.year = 2023
  /\ doc.month = 1
  /\ result.st = "ok"
  /\ result.val.year = 2024

(***************************************************************************)
(* common_parsers.rs: dates written with a month name or with a two-digit  *)
(* year.                                                                   *)
(***************************************************************************)
\* chrono's Month::from_str, on the month names the statements use
MonthNumber ==
  [w \in {"Jan", "January", "Feb", "February", "Mar", "March", "Dec", "December"} |->
     CASE w \in {"Jan", "January"} -> 1
       [] w \in {"Feb", "February"} -> 2
       [] w \in {"Mar", "March"} -> 3
       [] w \in {"Dec", "December"} -> 12]

\* map_res(alpha1, |x| x.parse::<Month>())
month_word(s) ==
  IF s # <<>> /\ Head(s) \in DOMAIN MonthNumber
  THEN Ok(Tail(s), MonthNumber[Head(s)])
  ELSE Err("MapRes")

\* separated_pair(month_word, multispace1, u32)
month_word_day(s) ==
  Then(month_word(s), LAMBDA m :
  Then(multispace1(m.rest), LAMBDA sp :
  Then(u32(sp.rest), LAMBDA d :
    Ok(d.rest, [month |-> m.val, day |-> d.val]))))

\* tuple((u32, char('/'), u32, char('/'), i32)), then
\* Date::from_ymd_opt(2000 + year, month, day).unwrap()
month_day_year(s) ==
  Then(month_day(s), LAMBDA md :
  Then(char("/", md.rest), LAMBDA sl :
  Then(i32(sl.rest), LAMBDA y :
    unwrap(y.rest, from_ymd_opt(2000 + y.val, md.val.month, md.val.day)))))

\* month_word_day, an optional comma, then map_opt(i32, from_ymd_opt)
month_word_day_year(s) ==
  Then(month_word_day(s), LAMBDA md :
  Then(multispace0(md.rest), LAMBDA sp1 :
  Then(opt_char(",", sp1.rest), LAMBDA comma :
  Then(multispace0(comma.rest), LAMBDA sp2 :
  Then(i32(sp2.rest), LAMBDA y :
    map_opt(y.rest, from_ymd_opt(y.val, md.val.month, md.val.day)))))))

RECURSIVE SumAmounts(_)
\* transactions.iter().map(|t| t.amount).sum()
SumAmounts(txs) ==
  IF txs = <<>> THEN 0 ELSE Head(txs).amount + SumAmounts(Tail(txs))

\* the check of a total: Err(ErrorKind::Verify) when the two differ
verify(computed_total, total, ok) ==
  IF computed_total # total THEN Err("Verify") ELSE ok

\* many_till(anychar, g): the number of characters before the first
\* position where g does not fail; -1 when g fails up to the end of the text
\* (St(i) is the outcome of g after i characters)
DescriptionEnd(s, St(_)) ==
  IF \E i \in 0..Len(s) : St(i) # "err"
  THEN CHOOSE i \in 0..Len(s) :
         St(i) # "err" /\ \A j \in 0..(i - 1) : St(j) = "err"
  ELSE -1

(***************************************************************************)
(* bank_of_america_credit_statement.rs                                     *)
(***************************************************************************)
\* is_a("0123456789 ")
account_number(s) ==
  Then(take_while(DOMAIN DigitValue \cup {" "}, s), LAMBDA a :
    IF a.val = <<>> THEN Err("IsA") ELSE a)

\* preceded(multispace1, separated_pair(digit1, multispace1, tag(account_number)))
reference_and_account(acct, s) ==
  Then(multispace1(s), LAMBDA sp :
  Then(digit1(sp.rest), LAMBDA ref :
  Then(multispace1(ref.rest), LAMBDA sp2 :
  Then(tag(acct, sp2.rest), LAMBDA a :
    Ok(a.rest, [reference_number |-> ref.val, account_number |-> a.val])))))

\* many_till(anychar, reference_and_account)
credit_description(acct, s) ==
  Only({IF n < 0 THEN Err("ManyTill")
        ELSE Then(reference_and_account(acct, Drop(s, n)), LAMBDA g :
               Ok(g.rest, [description |-> Take(s, n),
                           reference_number |-> g.val.reference_number,
                           account_number |-> g.val.account_number])) :
          n \in {DescriptionEnd(s,
                   LAMBDA i : reference_and_account(acct, Drop(s, i)).st)}})

credit_transaction(start_date, acct, type, s) ==
  Then(inferred_date(start_date, s), LAMBDA date :
  Then(multispace1(date.rest), LAMBDA sp1 :
  Then(inferred_date(start_date, sp1.rest), LAMBDA posting_date :
  Then(multispace1(posting_date.rest), LAMBDA sp2 :
  Then(credit_description(acct, sp2.rest), LAMBDA desc :
  Then(multispace1(desc.rest), LAMBDA sp3 :
  Then(dollar_amount(sp3.rest), LAMBDA amount :
  Then(tag(<<"\n", "\n">>, amount.rest), LAMBDA nl :
    Ok(nl.rest, [type_ |-> type,
                 date |-> date.val,
                 posting_date |-> posting_date.val,
                 description |-> desc.val.description,
                 reference_number |-> desc.val.reference_number,
                 account_number |-> desc.val.account_number,
                 amount |-> amount.val])))))))))

RECURSIVE credit_many0(_, _, _, _, _)
\* the loop of many1(transaction(..)): stops, keeping what it has, at the
\* first record the transaction parser fails on
credit_many0(start_date, acct, type, s, acc) ==
  Only({IF t.st = "panic" THEN Panic
        ELSE IF t.st # "ok" THEN Ok(s, acc)
        ELSE credit_many0(start_date, acct, type, t.rest, Append(acc, t.val)) :
          t \in {credit_transaction(start_date, acct, type, s)}})

credit_many1(start_date, acct, type, s) ==
  Then(credit_many0(start_date, acct, type, s, <<>>), LAMBDA r :
    IF r.val = <<>> THEN Err("Many1") ELSE r)

\* the declared total: preceded(terminated(take_until_including(
\* "FOR THIS PERIOD"), multispace1), dollar_amount)
period_total(anchor, s) ==
  Then(take_until_including(anchor, s), LAMBDA a :
  Then(multispace1(a.rest), LAMBDA sp :
    dollar_amount(sp.rest)))

credit_transaction_section(s, start_date, acct, section_header, type) ==
  Then(take_until_including(section_header, s), LAMBDA h :
  Then(credit_many1(start_date, acct, type, h.rest), LAMBDA transactions :
  Then(period_total(<<"FOR THIS PERIOD">>, transactions.rest), LAMBDA total :
  Then(tag(<<"\n", "\n">>, total.rest), LAMBDA nl :
    verify(SumAmounts(transactions.val), total.val,
           Ok(nl.rest, transactions.val))))))

\* the statement period: the start year is the end year, or the year before
\* when the start month is after the end month; both dates are unwrapped
credit_period(start, end, end_year, rest) ==
  Then(unwrap(rest, from_ymd_opt(IF start.month > end.month
                                 THEN end_year - 1 ELSE end_year,
                                 start.month, start.day)), LAMBDA start_date :
  Then(unwrap(rest, from_ymd_opt(end_year, end.month, end.day)), LAMBDA end_date :
    Ok(rest, [start_date |-> start_date.val, end_date |-> end_date.val])))

\* parse_statement up to the two balances
credit_header(s) ==
  Then(take_until_including(<<"Account# ">>, s), LAMBDA a :
  Then(account_number(a.rest), LAMBDA acct :
  Then(multispace0(acct.rest), LAMBDA sp1 :
  Then(month_word_day(sp1.rest), LAMBDA start :
  Then(tag(<<" ", "-", " ">>, start.rest), LAMBDA dash :
  Then(month_word_day(dash.rest), LAMBDA end :
  Then(tag(<<",", " ">>, end.rest), LAMBDA comma :
  Then(i32(comma.rest), LAMBDA end_year :
  Then(multispace0(end_year.rest), LAMBDA sp2 :
  Then(credit_period(start.val, end.val, end_year.val, sp2.rest), LAMBDA period :
  Then(take_until_including(<<"Previous Balance ">>, period.rest), LAMBDA pb :
  Then(dollar_amount(pb.rest), LAMBDA start_balance :
  Then(take_until_including(<<"New Balance Total ">>, start_balance.rest), LAMBDA nb :
  Then(dollar_amount(nb.rest), LAMBDA end_balance :
    Ok(end_balance.rest,
       [account_number |-> acct.val,
        start_date |-> period.val.start_date,
        end_date |-> period.val.end_date,
        start_balance |-> start_balance.val,
        end_balance |-> end_balance.val])))))))))))))))

\* &account_number[account_number.len() - 4..]: panics on a number shorter
\* than four characters
last4(rest, acct) ==
  IF Len(acct) < 4 THEN Panic ELSE Ok(rest, Drop(acct, Len(acct) - 4))

\* the optional section: peek(opt(tag("Fees\n\n"))), then the section or nothing
credit_fees(s, start_date, acct) ==
  Only({IF fees_present.st = "ok"
        THEN credit_transaction_section(s, start_date, acct,
                                        <<"Fees", "\n", "\n">>, "Fee")
        ELSE Ok(s, <<>>) : fees_present \in {tag(<<"Fees", "\n", "\n">>, s)}})

\* what parse_statement returns
Statement(h, transactions, total_interest) ==
  [account_number |-> h.account_number,
   start_date |-> h.start_date,
   end_date |-> h.end_date,
   start_balance |-> h.start_balance,
   end_balance |-> h.end_balance,
   transactions |-> transactions,
   total_interest |-> total_interest]

\* parse_statement through the two sections every statement has
credit_sections(s) ==
  Then(credit_header(s), LAMBDA h :
  Then(last4(h.rest, h.val.account_number), LAMBDA acct :
  Then(credit_transaction_section(acct.rest, h.val.start_date, acct.val,
         <<"Payments and Other Credits", "\n", "\n">>, "Credit"), LAMBDA credits :
  Then(credit_transaction_section(credits.rest, h.val.start_date, acct.val,
         <<"Purchases and Adjustments", "\n", "\n">>, "Purchase"), LAMBDA purchases :
    Ok(purchases.rest, [header |-> h.val, acct |-> acct.val,
                        transactions |-> credits.val \o purchases.val])))))

\* the credit assembler without its whole-statement check
credit_parse_statement_unchecked(s) ==
  Then(credit_sections(s), LAMBDA b :
  Then(credit_fees(b.rest, b.val.header.start_date, b.val.acct), LAMBDA fees :
  Then(period_total(<<"TOTAL INTEREST CHARGED ", "FOR THIS PERIOD">>, fees.rest),
       LAMBDA total_interest :
    Ok(total_interest.rest,
       Statement(b.val.header, b.val.transactions \o fees.val,
                 total_interest.val)))))

credit_parse_statement(s) ==
  Then(credit_sections(s), LAMBDA b :
  Then(credit_fees(b.rest, b.val.header.start_date, b.val.acct), LAMBDA fees :
  Then(period_total(<<"TOTAL INTEREST CHARGED ", "FOR THIS PERIOD">>, fees.rest),
       LAMBDA total_interest :
    verify(SumAmounts(b.val.transactions \o fees.val) + total_interest.val,
           b.val.header.end_balance - b.val.header.start_balance,
           Ok(total_interest.rest,
              Statement(b.val.header, b.val.transactions \o fees.val,
                        total_interest.val))))))

(***************************************************************************)
(* bank_of_america_debit_statement.rs                                      *)
(***************************************************************************)
\* peek(preceded(multispace0, alt((recognize(month_day_year),
\* tag(section_footer))))): nothing is consumed
date_or_footer_follows(section_footer, s) ==
  Then(multispace0(s), LAMBDA sp :
    Only({IF d.st # "err" THEN d ELSE tag(section_footer, sp.rest) :
            d \in {month_day_year(sp.rest)}}))

\* the amount alone, without the look-ahead for a date or the footer
dollar_amount_any_follows(section_footer, s) ==
  Then(multispace0(s), LAMBDA sp :
  Then(dollar_amount(sp.rest), LAMBDA amount :
    Ok(amount.rest, amount.val)))

dollar_amount_and_date_or_footer_follows(section_footer, s) ==
  Then(multispace0(s), LAMBDA sp :
  Then(dollar_amount(sp.rest), LAMBDA amount :
  Then(date_or_footer_follows(section_footer, amount.rest), LAMBDA follows :
    Ok(amount.rest, amount.val))))

\* many_till(anychar, dollar_amount_and_date_or_footer_follows(section_footer))
debit_description(section_footer, s) ==
  Only({IF n < 0 THEN Err("ManyTill")
        ELSE Then(dollar_amount_and_date_or_footer_follows(section_footer,
                    Drop(s, n)), LAMBDA g :
               Ok(g.rest, [description |-> Take(s, n), amount |-> g.val])) :
          n \in {DescriptionEnd(s, LAMBDA i :
                   dollar_amount_and_date_or_footer_follows(section_footer,
                     Drop(s, i)).st)}})

debit_transaction(section_footer, type, s) ==
  Then(month_day_year(s), LAMBDA date :
  Then(multispace1(date.rest), LAMBDA sp1 :
  Then(debit_description(section_footer, sp1.rest), LAMBDA desc :
  Then(multispace1(desc.rest), LAMBDA sp2 :
    Ok(sp2.rest, [type_ |-> type,
                  date |-> date.val,
                  description |-> desc.val.description,
                  amount |-> desc.val.amount])))))

RECURSIVE debit_many0(_, _, _, _)
\* many0(transaction(section_footer, transaction_type))
debit_many0(section_footer, type, s, acc) ==
  Only({IF t.st = "panic" THEN Panic
        ELSE IF t.st # "ok" THEN Ok(s, acc)
        ELSE debit_many0(section_footer, type, t.rest, Append(acc, t.val)) :
          t \in {debit_transaction(section_footer, type, s)}})

\* delimited(multispace0, alt((tag("Date Description Amount"),
\* tag("Date Transaction description Amount"))), multispace0)
debit_column_titles(s) ==
  Then(multispace0(s), LAMBDA sp1 :
  Then(IF IsPrefix(<<"Date Description Amount">>, sp1.rest)
       THEN tag(<<"Date Description Amount">>, sp1.rest)
       ELSE tag(<<"Date Transaction description Amount">>, sp1.rest), LAMBDA t :
    multispace0(t.rest)))

debit_transaction_section(s, section_header, section_footer, type) ==
  Then(take_until_including(section_header, s), LAMBDA h :
  Then(debit_column_titles(h.rest), LAMBDA titles :
  Then(debit_many0(section_footer, type, titles.rest, <<>>), LAMBDA transactions :
  Then(tag(section_footer, transactions.rest), LAMBDA footer :
  Then(multispace1(footer.rest), LAMBDA sp :
  Then(dollar_amount(sp.rest), LAMBDA total :
    verify(SumAmounts(transactions.val), total.val,
           Ok(total.rest, transactions.val))))))))

RECURSIVE digit_groups(_)
\* the loop of many1_count(preceded(multispace0, digit1)): the text after
\* the last group
digit_groups(s) ==
  Only({IF d.st # "ok" THEN s ELSE digit_groups(d.rest) :
          d \in {digit1(multispace0(s).rest)}})

\* recognize(many1_count(preceded(multispace0, digit1)))
spaced_digits(s) ==
  Only({IF rest = s THEN Err("Many1Count")
        ELSE Ok(rest, Take(s, Len(s) - Len(rest))) : rest \in {digit_groups(s)}})

\* take_until_including(label), month_word_day_year,
\* preceded(multispace0, dollar_amount)
balance_on(label, s) ==
  Then(take_until_including(label, s), LAMBDA l :
  Then(month_word_day_year(l.rest), LAMBDA date :
  Then(multispace0(date.rest), LAMBDA sp :
  Then(dollar_amount(sp.rest), LAMBDA balance :
    Ok(balance.rest, [date |-> date.val, balance |-> balance.val])))))

\* parse_statement up to the two balances
debit_header(s) ==
  Then(take_until_including(<<"Account number:">>, s), LAMBDA a :
  Then(spaced_digits(a.rest), LAMBDA acct :
  Then(balance_on(<<"Beginning balance on ">>, acct.rest), LAMBDA start :
  Then(balance_on(<<"Ending balance on ">>, start.rest), LAMBDA end :
    Ok(end.rest,
       [account_number |-> acct.val,
        start_date |-> start.val.date,
        end_date |-> end.val.date,
        start_balance |-> start.val.balance,
        end_balance |-> end.val.balance])))))

\* parse_statement through the two sections every statement has
debit_sections(s) ==
  Then(debit_header(s), LAMBDA h :
  Then(debit_transaction_section(h.rest,
         <<"Deposits and other additions">>,
         <<"Total deposits and other additions">>, "Deposit"), LAMBDA deposits :
  Then(debit_transaction_section(deposits.rest,
         <<"Withdrawals and other subtractions">>,
         <<"Total withdrawals and other subtractions">>, "Withdrawal"),
       LAMBDA withdrawals :
    Ok(withdrawals.rest, [header |-> h.val,
                          transactions |-> deposits.val \o withdrawals.val]))))

\* the fee section parsed without the presence check
debit_fees_required(s) ==
  debit_transaction_section(s, <<"Service fees">>, <<"Total service fees">>,
                            "Withdrawal")

\* the optional section: peek(opt(take_until("Service fees"))), then the
\* section or nothing
debit_fees(s) ==
  Only({IF fees_present.st = "ok"
        THEN debit_transaction_section(s, <<"Service fees">>,
                                       <<"Total service fees">>, "Withdrawal")
        ELSE Ok(s, <<>>) : fees_present \in {take_until(<<"Service fees">>, s)}})

\* what the debit parse_statement returns (the format has no interest field)
DebitStatement(h, transactions) ==
  [account_number |-> h.account_number,
   start_date |-> h.start_date,
   end_date |-> h.end_date,
   start_balance |-> h.start_balance,
   end_balance |-> h.end_balance,
   transactions |-> transactions]

debit_parse_statement(s) ==
  Then(debit_sections(s), LAMBDA b :
  Then(debit_fees(b.rest), LAMBDA fees :
    verify(SumAmounts(b.val.transactions \o fees.val),
           b.val.header.end_balance - b.val.header.start_balance,
           Ok(fees.rest,
              DebitStatement(b.val.header, b.val.transactions \o fees.val)))))

(***************************************************************************)
(* chase_credit_statement.rs                                               *)
(***************************************************************************)
\* preceded(tag("  "), month_day)
indented_month_day(s) ==
  Then(tag(<<" ", " ">>, s), LAMBDA indent : month_day(indent.rest))

\* delimited(multispace0, dollar_amount, newline)
amount_at_line_end(s) ==
  Then(multispace0(s), LAMBDA sp :
  Then(dollar_amount(sp.rest), LAMBDA amount :
  Then(newline(amount.rest), LAMBDA nl :
    Ok(nl.rest, amount.val))))

\* many_till(anychar, amount_at_line_end)
chase_description(s) ==
  Only({IF n < 0 THEN Err("ManyTill")
        ELSE Then(amount_at_line_end(Drop(s, n)), LAMBDA g :
               Ok(g.rest, [description |-> Take(s, n), amount |-> g.val])) :
          n \in {DescriptionEnd(s, LAMBDA i : amount_at_line_end(Drop(s, i)).st)}})

\* not_line_ending: the text before the next line break
not_line_ending(s) ==
  Only({IF k < 0 THEN Ok(<<>>, s) ELSE Ok(Drop(s, k), Take(s, k)) :
          k \in {FindFirst(<<"\n">>, s)}})

\* delimited(multispace0, not_line_ending, newline)
description_line(s) ==
  Then(multispace0(s), LAMBDA sp :
  Then(not_line_ending(sp.rest), LAMBDA line :
  Then(newline(line.rest), LAMBDA nl :
    Ok(nl.rest, line.val))))

\* peek(alt((value((), preceded(tag("  "), month_day)), value((), newline))))
next_transaction_or_blank(s) ==
  Only({IF d.st = "ok" THEN Ok(s, <<>>)
        ELSE Then(newline(s), LAMBDA nl : Ok(s, <<>>)) :
          d \in {indented_month_day(s)}})

RECURSIVE additional_description(_, _)
\* many_till(description_line, next_transaction_or_blank)
additional_description(s, acc) ==
  Only({IF g.st = "ok" THEN Ok(s, acc)
        ELSE Then(description_line(s), LAMBDA line :
               IF line.rest = s THEN Err("ManyTill")
               ELSE additional_description(line.rest, Append(acc, line.val))) :
          g \in {next_transaction_or_blank(s)}})

RECURSIVE JoinLines(_, _)
\* description += "\n"; description += s, for each continuation line
JoinLines(description, lines) ==
  IF lines = <<>> THEN description
  ELSE JoinLines(description \o <<"\n">> \o Head(lines), Tail(lines))

\* cond(additional_desc.len() > 0, newline)
cond_newline(additional_desc, s) ==
  IF Len(additional_desc) > 0 THEN newline(s) ELSE Ok(s, <<>>)

chase_transaction(start_date, type, s) ==
  Then(indented_month_day(s), LAMBDA md :
  Then(unwrap(md.rest, infer_year(md.val.month, md.val.day, start_date)),
       LAMBDA date :
  Then(multispace1(date.rest), LAMBDA sp :
  Then(chase_description(sp.rest), LAMBDA desc :
  Then(additional_description(desc.rest, <<>>), LAMBDA additional_desc :
  Then(cond_newline(additional_desc.val, additional_desc.rest), LAMBDA nl :
    Ok(nl.rest, [type_ |-> type,
                 date |-> date.val,
                 description |->
                   JoinLines(desc.val.description, additional_desc.val),
                 amount |-> desc.val.amount])))))))

RECURSIVE chase_many0(_, _, _, _)
\* many0(transaction(start_date, transaction_type))
chase_many0(start_date, type, s, acc) ==
  Only({IF t.st = "panic" THEN Panic
        ELSE IF t.st # "ok" THEN Ok(s, acc)
        ELSE chase_many0(start_date, type, t.rest, Append(acc, t.val)) :
          t \in {chase_transaction(start_date, type, s)}})

chase_transaction_section(s, start_date, section_header, type) ==
  Then(take_until_including(section_header, s), LAMBDA h :
  Then(tag(<<"\n", "\n">>, h.rest), LAMBDA nl :
    chase_many0(start_date, type, nl.rest, <<>>)))

\* take_until_including(label), preceded(multispace0, dollar_amount)
chase_balance(label, s) ==
  Then(take_until_including(label, s), LAMBDA l :
  Then(multispace0(l.rest), LAMBDA sp :
    dollar_amount(sp.rest)))

\* delimited(multispace0, tag("Opening/Closing Date"), multispace0), then
\* separated_pair(month_day_year, tag(" - "), month_day_year)
chase_period(s) ==
  Then(multispace0(s), LAMBDA sp1 :
  Then(tag(<<"Opening/Closing Date">>, sp1.rest), LAMBDA t :
  Then(multispace0(t.rest), LAMBDA sp2 :
  Then(month_day_year(sp2.rest), LAMBDA start_date :
  Then(tag(<<" ", "-", " ">>, start_date.rest), LAMBDA dash :
  Then(month_day_year(dash.rest), LAMBDA end_date :
    Ok(end_date.rest,
       [start_date |-> start_date.val, end_date |-> end_date.val])))))))

\* parse_statement up to "ACCOUNT ACTIVITY"
chase_header(s) ==
  Then(take_until_including(<<"ACCOUNT SUMMARY">>, s), LAMBDA a :
  Then(take_until_including(<<"Account Number: ">>, a.rest), LAMBDA n :
  Then(spaced_digits(n.rest), LAMBDA acct :
  Then(chase_balance(<<"Previous Balance">>, acct.rest), LAMBDA start_balance :
  Then(chase_balance(<<"New Balance">>, start_balance.rest), LAMBDA end_balance :
  Then(chase_period(end_balance.rest), LAMBDA period :
  Then(take_until_including(<<"ACCOUNT ACTIVITY">>, period.rest), LAMBDA act :
    Ok(act.rest,
       [account_number |-> acct.val,
        start_date |-> period.val.start_date,
        end_date |-> period.val.end_date,
        start_balance |-> start_balance.val,
        end_balance |-> end_balance.val]))))))))

\* no total is read and none is checked; total_interest is the constant 0
chase_parse_statement(s) ==
  Then(chase_header(s), LAMBDA h :
  Then(chase_transaction_section(h.rest, h.val.start_date,
         <<"PAYMENTS AND OTHER CREDITS">>, "Credit"), LAMBDA credits :
  Then(chase_transaction_section(credits.rest, h.val.start_date,
         <<"PURCHASE">>, "Purchase"), LAMBDA purchases :
    Ok(purchases.rest,
       Statement(h.val, credits.val \o purchases.val, 0)))))

(***************************************************************************)
(* The statements that are parsed.  A statement is described by what is    *)
(* written in it: the balances S and E, the interest I, and for each       *)
(* section whether it is in the text, its transaction records and its      *)
(* declared total.  A record is well-formed ("ok"), has its date written   *)
(* with '-' for '/' ("malformed"), or is dated February 30 ("baddate").    *)
(* Render gives the text of the statement in the layout of its format.     *)
(***************************************************************************)
Records ==
  {[kind |-> "ok", amt |-> 15000], [kind |-> "ok", amt |-> -5000],
   [kind |-> "malformed", amt |-> 2500], [kind |-> "baddate", amt |-> 15000]}

RecordSeqs(n) == UNION {[1..k -> Records] : k \in 0..n}

Formats == {"credit", "debit", "chase"}

Faults == {"none", "endOff", "totalOff", "badRange"}

RECURSIVE SumWritten(_)
SumWritten(recs) ==
  IF recs = <<>> THEN 0 ELSE Head(recs).amt + SumWritten(Tail(recs))

\* canonical text of an amount in cents: sign, optional '$', whole dollars,
\* the point, two cent digits
FormatAmount(n, dollar) ==
  LET a == IF n < 0 THEN 0 - n ELSE n
  IN (IF n < 0 THEN <<"-">> ELSE <<>>)
     \o (IF dollar THEN <<"$">> ELSE <<>>)
     \o FormatNat(a \div 100)
     \o <<".", DigitChars[((a % 100) \div 10) + 1], DigitChars[(a % 10) + 1]>>

Section(present, recs, total) ==
  [present |-> present, recs |-> recs, total |-> total]

\* the statement with these records, consistent but for the fault
BuildDoc(fmt, r1, r2, fees, r3, interest, fault) ==
  LET sum == SumWritten(r1) + SumWritten(r2) + SumWritten(r3)
  IN [fmt |-> fmt,
      fault |-> fault,
      range |-> IF fault = "badRange" THEN "invalid" ELSE "ok",
      S |-> 10000,
      E |-> 10000 + sum + interest + (IF fault = "endOff" THEN 1000 ELSE 0),
      I |-> interest,
      secs |-> <<Section(TRUE, r1,
                   SumWritten(r1) + (IF fault = "totalOff" THEN 1000 ELSE 0)),
                 Section(TRUE, r2, SumWritten(r2)),
                 Section(fees, r3, SumWritten(r3))>>]

RecordDate(rec, sep) ==
  IF rec.kind = "baddate" THEN <<"2", sep, "3", "0">> ELSE <<"1", sep, "1", "5">>

RecordSep(rec) == IF rec.kind = "malformed" THEN "-" ELSE "/"

RECURSIVE RenderRecords(_, _)
RenderRecords(fmt, recs) ==
  IF recs = <<>> THEN <<>>
  ELSE LET rec == Head(recs)
           date == RecordDate(rec, RecordSep(rec))
           text ==
             CASE fmt = "credit" ->
                    date \o <<" ">> \o date \o <<" ", "STORE", " ", "7", "7", " ",
                      "3", "4", "5", "6", " ">> \o FormatAmount(rec.amt, TRUE)
                      \o <<"\n", "\n">>
               [] fmt = "debit" ->
                    date \o <<RecordSep(rec), "2", "4", " ", "STORE", " ">>
                      \o FormatAmount(rec.amt, FALSE) \o <<"\n">>
               [] fmt = "chase" ->
                    <<" ", " ">> \o date \o <<" ", "STORE", " ">>
                      \o FormatAmount(rec.amt, FALSE) \o <<"\n">>
       IN text \o RenderRecords(fmt, Tail(recs))

CreditHeaders ==
  <<"Payments and Other Credits", "Purchases and Adjustments", "Fees">>

DebitHeaders ==
  <<"Deposits and other additions", "Withdrawals and other subtractions",
    "Service fees">>

DebitFooters ==
  <<"Total deposits and other additions",
    "Total withdrawals and other subtractions", "Total service fees">>

ChaseHeaders == <<"PAYMENTS AND OTHER CREDITS", "PURCHASE">>

\* the text of the section sec, the k-th of a statement of format fmt
RenderSection(fmt, k, sec) ==
  IF ~sec.present THEN <<>>
  ELSE CASE fmt = "credit" ->
                 <<CreditHeaders[k], "\n", "\n">> \o RenderRecords("credit", sec.recs)
                   \o <<"TOTAL ", "FOR THIS PERIOD", " ">>
                   \o FormatAmount(sec.total, TRUE) \o <<"\n", "\n">>
            [] fmt = "debit" ->
                 <<DebitHeaders[k], "\n", "Date Description Amount", "\n">>
                   \o RenderRecords("debit", sec.recs)
                   \o <<DebitFooters[k], " ">>
                   \o FormatAmount(sec.total, FALSE) \o <<"\n">>
            [] fmt = "chase" ->
                 <<ChaseHeaders[k], "\n", "\n">> \o RenderRecords("chase", sec.recs)
                   \o <<"\n">>

AccountDigits ==
  <<"1", "2", "3", "4", " ", "5", "6", "7", "8", " ", "9", "0", "1", "2", " ",
    "3", "4", "5", "6">>

RenderHeader(d) ==
  CASE d.fmt = "credit" ->
         <<"Statement", "\n", "Account# ">> \o AccountDigits \o <<"\n">>
           \o (IF d.range = "ok"
               THEN <<"Jan", " ", "1", " ", "-", " ", "Jan", " ", "3", "1">>
               ELSE <<"Feb", " ", "3", "0", " ", "-", " ", "Mar", " ", "1">>)
           \o <<",", " ", "2", "0", "2", "4", "\n", "Previous Balance ">>
           \o FormatAmount(d.S, TRUE) \o <<"\n", "New Balance Total ">>
           \o FormatAmount(d.E, TRUE) \o <<"\n", "\n">>
    [] d.fmt = "debit" ->
         <<"Statement", "\n", "Account number:", " ", "1", "2", "3", "4", " ",
           "5", "6", "7", "8", "\n", "Beginning balance on ">>
           \o (IF d.range = "ok" THEN <<"January", " ", "1">>
               ELSE <<"February", " ", "3", "0">>)
           \o <<",", " ", "2", "0", "2", "4", " ">> \o FormatAmount(d.S, TRUE)
           \o <<"\n", "Ending balance on ", "January", " ", "3", "1", ",", " ",
                "2", "0", "2", "4", " ">> \o FormatAmount(d.E, TRUE) \o <<"\n">>
    [] d.fmt = "chase" ->
         <<"Statement", "\n", "ACCOUNT SUMMARY", "\n", "Account Number: ",
           "1", "2", "3", "4", " ", "5", "6", "7", "8", "\n", "Previous Balance",
           " ">> \o FormatAmount(d.S, TRUE) \o <<"\n", "New Balance", " ">>
           \o FormatAmount(d.E, TRUE) \o <<"\n", "Opening/Closing Date", " ">>
           \o (IF d.range = "ok" THEN <<"0", "1", "/", "0", "1", "/", "2", "4">>
               ELSE <<"0", "2", "/", "3", "0", "/", "2", "4">>)
           \o <<" ", "-", " ", "0", "1", "/", "3", "1", "/", "2", "4", "\n",
                "ACCOUNT ACTIVITY", "\n">>

RenderTrailer(d) ==
  IF d.fmt = "credit"
  THEN <<"Interest Charged", "\n", "\n", "TOTAL INTEREST CHARGED ",
         "FOR THIS PERIOD", " ">> \o FormatAmount(d.I, TRUE) \o <<"\n", "\n">>
  ELSE <<"Page", " ", "2", "\n">>

Render(d) ==
  RenderHeader(d) \o RenderSection(d.fmt, 1, d.secs[1])
    \o RenderSection(d.fmt, 2, d.secs[2])
    \o RenderSection(d.fmt, 3, d.secs[3]) \o RenderTrailer(d)

(***************************************************************************)
(* Specification of the statement grammars: a statement text is parsed by  *)
(* the assembler of its format.                                            *)
(***************************************************************************)
\* the statements of the model: at most MaxRecs records in all; only the
\* Bank of America formats have a fee section and declared section totals,
\* only the credit format an interest line
Init ==
  /\ pc = "ready"
  /\ \E fmt \in Formats, fault \in Faults, fees \in BOOLEAN, interest \in {0, -20000} :
       /\ fmt # "credit" => interest = 0
       /\ fmt = "chase" => (~fees /\ fault # "totalOff")
       /\ \E r1 \in RecordSeqs(MaxRecs) :
            \E r2 \in RecordSeqs(MaxRecs - Len(r1)) :
              \E r3 \in RecordSeqs(IF fees THEN MaxRecs - Len(r1) - Len(r2) ELSE 0) :
                doc = BuildDoc(fmt, r1, r2, fees, r3, interest, fault)
  /\ input = Render(doc)
  /\ result = NoResult

ParseBoaCredit ==
  /\ pc = "ready"
  /\ doc.fmt = "credit"
  /\ result' = credit_parse_statement(input)
  /\ pc' = "done"
  /\ UNCHANGED <<doc, input>>

ParseBoaDebit ==
  /\ pc = "ready"
  /\ doc.fmt = "debit"
  /\ result' = debit_parse_statement(input)
  /\ pc' = "done"
  /\ UNCHANGED <<doc, input>>

ParseChaseCredit ==
  /\ pc = "ready"
  /\ doc.fmt = "chase"
  /\ result' = chase_parse_statement(input)
  /\ pc' = "done"
  /\ UNCHANGED <<doc, input>>

Next ==
  \/ ParseBoaCredit
  \/ ParseBoaDebit
  \/ ParseChaseCredit

Spec == Init /\ [][Next]_vars

(***************************************************************************)
(* Specification of the section aggregators of the Bank of America         *)
(* formats: the text of one section, with a declared total that is the sum *)
(* of its records or off by 10.00, is parsed by transaction_section.       *)
(***************************************************************************)
\* the start date and the account suffix the credit assembler passes down
CreditStartDate == from_ymd_opt(2024, 1, 1)

CreditAccountSuffix == Drop(AccountDigits, Len(AccountDigits) - 4)

TotalDeltas == {0, 1000}

InitSection ==
  /\ pc = "ready"
  /\ \E fmt \in {"credit", "debit"}, k \in 1..3, recs \in RecordSeqs(MaxRecs),
        delta \in TotalDeltas :
       doc = [fmt |-> fmt, sel |-> k,
              sec |-> Section(TRUE, recs, SumWritten(recs) + delta)]
  /\ input = RenderSection(doc.fmt, doc.sel, doc.sec)
  /\ result = NoResult

CreditSection ==
  /\ pc = "ready"
  /\ doc.fmt = "credit"
  /\ result' = credit_transaction_section(input, CreditStartDate,
                  CreditAccountSuffix, <<CreditHeaders[doc.sel], "\n", "\n">>,
                  <<"Credit", "Purchase", "Fee">>[doc.sel])
  /\ pc' = "done"
  /\ UNCHANGED <<doc, input>>

DebitSection ==
  /\ pc = "ready"
  /\ doc.fmt = "debit"
  /\ result' = debit_transaction_section(input, <<DebitHeaders[doc.sel]>>,
                  <<DebitFooters[doc.sel]>>,
                  <<"Deposit", "Withdrawal", "Withdrawal">>[doc.sel])
  /\ pc' = "done"
  /\ UNCHANGED <<doc, input>>

NextSection ==
  \/ CreditSection
  \/ DebitSection

SpecSection == InitSection /\ [][NextSection]_vars

(***************************************************************************)
(* Properties of the statement grammars.                                   *)
(***************************************************************************)
\* the records written in a statement, in text order
AllRecs(d) == d.secs[1].recs \o d.secs[2].recs \o d.secs[3].recs

\* the amounts of a parsed transaction sequence, and of written records
Amounts(txs) == [i \in 1..Len(txs) |-> txs[i].amount]

WrittenAmounts(recs) == [i \in 1..Len(recs) |-> recs[i].amt]

\* total_interest, taken as 0 where the format has no interest field
InterestOf(st) ==
  IF "total_interest" \in DOMAIN st THEN st.total_interest ELSE 0

AllWellFormed(recs) == \A i \in 1..Len(recs) : recs[i].kind = "ok"

\* the debit assembler without its whole-statement check
debit_parse_statement_unchecked(s) ==
  Then(debit_sections(s), LAMBDA b :
  Then(debit_fees(b.rest), LAMBDA fees :
    Ok(fees.rest,
       DebitStatement(b.val.header, b.val.transactions \o fees.val))))

\* everything parse_statement reads before its whole-statement check
Unchecked ==
  IF doc.fmt = "credit" THEN credit_parse_statement_unchecked(input)
  ELSE debit_parse_statement_unchecked(input)

\* parse_statement up to the optional fee section, and the fee step itself
BeforeFees ==
  IF doc.fmt = "credit" THEN credit_sections(input) ELSE debit_sections(input)

FeesStep ==
  IF doc.fmt = "credit"
  THEN credit_fees(BeforeFees.rest, BeforeFees.val.header.start_date,
                   BeforeFees.val.acct)
  ELSE debit_fees(BeforeFees.rest)

NoFeeHeader ==
  FindFirst(IF doc.fmt = "credit" THEN <<"Fees">> ELSE <<"Service fees">>,
            BeforeFees.rest) < 0

\* C1: every statement returned by one of the three assemblers satisfies
\* end_balance - start_balance = sum of its transaction amounts +
\* total_interest (0 where the format has no interest field).
C1_BalanceEquation ==
  (pc = "done" /\ doc.fmt \in Formats /\ result.st = "ok") =>
     result.val.end_balance - result.val.start_balance
       = SumAmounts(result.val.transactions) + InterestOf(result.val)

\* C2: for the Bank of America credit and debit assemblers, when the header
\* and every section parse and pass their own total check, parse_statement
\* returns a statement if and only if E - S = sum(a_i) + I; a statement whose
\* amounts and section totals are moved together while E stays is refused
\* with an error and no statement.
C2_StatementCheck ==
  (pc = "done" /\ doc.fmt \in {"credit", "debit"} /\ Unchecked.st = "ok") =>
     /\ result.st = "ok" <=>
          Unchecked.val.end_balance - Unchecked.val.start_balance
            = SumAmounts(Unchecked.val.transactions) + InterestOf(Unchecked.val)
     /\ result.st = "ok" => result = Unchecked
     /\ result.st # "ok" => (result.st = "err" /\ result.kind = "Verify")
     /\ doc.E - doc.S # SumWritten(AllRecs(doc)) + doc.I => result.st = "err"

\* a credit statement whose sections are consistent but whose ending balance
\* was not adjusted has been refused by the whole-statement check
C2_Witness ==
  /\ pc = "done"
  /\ doc.fmt = "credit"
  /\ doc.fault = "endOff"
  /\ Len(doc.secs[1].recs) = 1
  /\ Len(doc.secs[2].recs) = 1
  /\ Unchecked.st = "ok"
  /\ result.st = "err"
  /\ result.kind = "Verify"

\* C3: the section aggregator of the Bank of America credit and debit
\* formats succeeds and returns exactly the written transactions in text
\* order when the declared total equals the sum of the written amounts, and
\* returns the totals-mismatch error (Verify) when an amount is off by a
\* nonzero delta and the declared total is unchanged.
C3_SectionTotal ==
  (pc = "done" /\ AllWellFormed(doc.sec.recs)) =>
     /\ doc.sec.total = SumWritten(doc.sec.recs) =>
          /\ result.st = "ok"
          /\ Amounts(result.val) = WrittenAmounts(doc.sec.recs)
     /\ (doc.sec.total # SumWritten(doc.sec.recs) /\ doc.sec.recs # <<>>) =>
          (result.st = "err" /\ result.kind = "Verify")

\* the statement of the end-to-end scenario: Account# 1234 5678 9012 3456,
\* Jan 1 - Jan 31, 2024, Previous Balance $100.00, New Balance Total $50.00,
\* one credit of $150.00, totals consistent
ScenarioDoc ==
  BuildDoc("credit", <<[kind |-> "ok", amt |-> 15000]>>, <<>>, FALSE, <<>>,
           -20000, "none")

\* C4: the end-to-end scenario parses to a statement with account_number
\* ending in 3456, start_balance 10000, end_balance 5000 and exactly one
\* transaction, of amount 15000.
C4_Scenario ==
  (pc = "done" /\ doc = ScenarioDoc) =>
     /\ result.st = "ok"
     /\ Drop(result.val.account_number, Len(result.val.account_number) - 4)
          = <<"3", "4", "5", "6">>
     /\ result.val.start_balance = 10000
     /\ result.val.end_balance = 5000
     /\ Amounts(result.val.transactions) = <<15000>>

\* C5: when the text after the withdrawals (debit) or purchases (credit)
\* section holds no fee section header, the presence check consumes no
\* input, no fee transaction is added, and an otherwise consistent statement
\* parses successfully.
C5_AbsentFees ==
  (pc = "done" /\ doc.fmt \in {"credit", "debit"} /\ BeforeFees.st = "ok"
   /\ NoFeeHeader) =>
     /\ FeesStep = Ok(BeforeFees.rest, <<>>)
     /\ doc.fault = "none" =>
          /\ result.st = "ok"
          /\ result.val.transactions = BeforeFees.val.transactions

\* a consistent debit statement with two records and no "Service fees"
\* section has been parsed
C5_Witness ==
  /\ pc = "done"
  /\ doc.fmt = "debit"
  /\ ~doc.secs[3].present
  /\ doc.fault = "none"
  /\ NoFeeHeader
  /\ result.st = "ok"
  /\ Len(result.val.transactions) = 2

\* a date of the statement text is not a calendar date
HasInvalidDate(d) ==
  \/ d.range = "invalid"
  \/ \E i \in 1..Len(AllRecs(d)) : AllRecs(d)[i].kind = "baddate"

\* C9: when a date token of the text is not a real calendar date, in any
\* format and at any position, parsing ends with a returned parse failure:
\* no panic and no statement.
C9_InvalidDate ==
  (pc = "done" /\ doc.fmt \in Formats /\ HasInvalidDate(doc)) =>
     result.st = "err"

\* C10: in every format, a returned statement holds every transaction
\* record written in its sections, in order; a record the transaction parser
\* fails on makes the assembler fail.
C10_NoPartialResult ==
  (pc = "done" /\ doc.fmt \in Formats /\ result.st = "ok") =>
     Amounts(result.val.transactions) = WrittenAmounts(AllRecs(doc))

\* C11: a section that is present, holds no transaction record and declares
\* a total of 0.00 is parsed successfully by the section aggregator and
\* yields the empty transaction sequence.
C11_EmptySection ==
  (pc = "done" /\ doc.sec.recs = <<>> /\ doc.sec.total = 0) =>
     (result.st = "ok" /\ result.val = <<>>)

(***************************************************************************)
(* Specification of the Chase multi-line transactions: a PURCHASE section  *)
(* of at most two records, each with up to MaxLines continuation lines     *)
(* (indented or not), is parsed by transaction_section.  A record that is  *)
(* not the last is ended by the date-indent line of the next record, the   *)
(* last one by a blank line.                                               *)
(***************************************************************************)
ChaseRecords ==
  {[amt |-> a, lines |-> k, indent |-> b] :
     a \in {15000, -5000}, k \in 0..MaxLines, b \in BOOLEAN}

ChaseRecordSeqs ==
  UNION {[1..n -> {r \in ChaseRecords : r.lines = 0 => ~r.indent}] : n \in 0..2}

\* the text of continuation line j
ContinuationLine(j) == <<"REF", DigitChars[j + 1]>>

RECURSIVE RenderContinuation(_, _)
\* continuation lines j..rec.lines, each ended by a line break
RenderContinuation(rec, j) ==
  IF j > rec.lines THEN <<>>
  ELSE (IF rec.indent THEN <<" ", " ">> ELSE <<>>) \o ContinuationLine(j)
         \o <<"\n">> \o RenderContinuation(rec, j + 1)

RECURSIVE RenderChaseRecords(_)
RenderChaseRecords(recs) ==
  IF recs = <<>> THEN <<>>
  ELSE <<" ", " ", "1", "/", "1", "5", " ", "STORE", " ">>
         \o FormatAmount(Head(recs).amt, FALSE) \o <<"\n">>
         \o RenderContinuation(Head(recs), 1)
         \o RenderChaseRecords(Tail(recs))

\* the start date the Chase assembler passes down
ChaseStartDate == from_ymd_opt(2024, 1, 1)

InitChase ==
  /\ pc = "ready"
  /\ \E recs \in ChaseRecordSeqs : doc = [fmt |-> "chase", recs |-> recs]
  /\ input = <<"PURCHASE", "\n", "\n">> \o RenderChaseRecords(doc.recs)
               \o <<"\n", "Page", " ", "2", "\n">>
  /\ result = NoResult

ChaseSection ==
  /\ pc = "ready"
  /\ doc.fmt = "chase"
  /\ result' = chase_transaction_section(input, ChaseStartDate,
                  <<"PURCHASE">>, "Purchase")
  /\ pc' = "done"
  /\ UNCHANGED <<doc, input>>

NextChase == ChaseSection

SpecChase == InitChase /\ [][NextChase]_vars

RECURSIVE ExpectedDescription(_, _)
\* the first-line description followed by continuation lines j..rec.lines,
\* each after an inserted line break
ExpectedDescription(rec, j) ==
  IF j > rec.lines THEN <<>>
  ELSE <<"\n">> \o ContinuationLine(j) \o ExpectedDescription(rec, j + 1)

\* C12: a Chase record with k >= 0 continuation lines is parsed whether the
\* lines are ended by the next transaction's date-indent line or by a blank
\* line; its description is the first-line description followed by each
\* continuation line after an inserted line break, and a following
\* transaction is parsed and returned as well.
C12_MultiLine ==
  pc = "done" =>
     /\ result.st = "ok"
     /\ Len(result.val) = Len(doc.recs)
     /\ \A i \in 1..Len(doc.recs) :
          /\ result.val[i].description
               = <<"STORE">> \o ExpectedDescription(doc.recs[i], 1)
          /\ result.val[i].amount = doc.recs[i].amt

\* the category tag the claim gives to section k of a format
ClaimedTags ==
  [credit |-> <<"Credit", "Purchase", "Fee">>,
   debit |-> <<"Deposit", "Withdrawal", "Fee">>]

\* the tags of the records written in statement d, in text order
WrittenTags(d) ==
  [i \in 1..Len(d.secs[1].recs) |-> ClaimedTags[d.fmt][1]]
    \o [i \in 1..Len(d.secs[2].recs) |-> ClaimedTags[d.fmt][2]]
    \o [i \in 1..Len(d.secs[3].recs) |-> ClaimedTags[d.fmt][3]]

\* C13: every transaction of a returned Bank of America statement carries
\* the tag of the section it was parsed from, in section order: Credit,
\* Purchase, Fee for the credit-card format and Deposit, Withdrawal, Fee for
\* the debit format; a transaction of a fee section is always tagged Fee.
C13_CategoryTags ==
  (pc = "done" /\ doc.fmt \in {"credit", "debit"} /\ result.st = "ok") =>
     [i \in 1..Len(result.val.transactions) |->
        result.val.transactions[i].type_] = WrittenTags(doc)

(***************************************************************************)
(* Specification of the account-number suffix of the Bank of America       *)
(* credit format: consistent statements with one payment and one purchase, *)
(* whose account number is written in full, with four digits or with       *)
(* fewer, and is followed by up to MaxSpaces spaces before the line of the *)
(* date range.  Each record is written with the last four digits of the    *)
(* account number (all of them when there are fewer) after its reference   *)
(* number.                                                                 *)
(***************************************************************************)
AccountTexts ==
  {AccountDigits, <<"3", "4", "5", "6">>, <<"4", "5", "6">>, <<"5", "6">>}

\* the last four digits of an account-number text
LastFourDigits(acct) ==
  Drop(DigitsOnly(acct),
       IF Len(DigitsOnly(acct)) > 4 THEN Len(DigitsOnly(acct)) - 4 ELSE 0)

RenderAccountRecord(acct, amt) ==
  <<"1", "/", "1", "5", " ", "1", "/", "1", "5", " ", "STORE", " ", "7", "7",
    " ">> \o LastFourDigits(acct) \o <<" ">> \o FormatAmount(amt, TRUE)
    \o <<"\n", "\n">>

RenderAccountStatement(d) ==
  <<"Statement", "\n", "Account# ">> \o d.acct
    \o [i \in 1..d.spaces |-> " "]
    \o <<"\n", "Jan", " ", "1", " ", "-", " ", "Jan", " ", "3", "1", ",", " ",
         "2", "0", "2", "4", "\n", "Previous Balance ">>
    \o FormatAmount(d.S, TRUE) \o <<"\n", "New Balance Total ">>
    \o FormatAmount(d.E, TRUE) \o <<"\n", "\n">>
    \o <<CreditHeaders[1], "\n", "\n">> \o RenderAccountRecord(d.acct, d.a1)
    \o <<"TOTAL ", "FOR THIS PERIOD", " ">> \o FormatAmount(d.a1, TRUE)
    \o <<"\n", "\n">>
    \o <<CreditHeaders[2], "\n", "\n">> \o RenderAccountRecord(d.acct, d.a2)
    \o <<"TOTAL ", "FOR THIS PERIOD", " ">> \o FormatAmount(d.a2, TRUE)
    \o <<"\n", "\n">>
    \o <<"Interest Charged", "\n", "\n", "TOTAL INTEREST CHARGED ",
         "FOR THIS PERIOD", " ">> \o FormatAmount(d.I, TRUE) \o <<"\n", "\n">>

InitAccount ==
  /\ pc = "ready"
  /\ \E acct \in AccountTexts, n \in 0..MaxSpaces, a1 \in {15000, -5000},
        a2 \in {15000, -5000}, interest \in {0, -20000} :
       doc = [fmt |-> "credit", acct |-> acct, spaces |-> n, a1 |-> a1,
              a2 |-> a2, I |-> interest, S |-> 10000,
              E |-> 10000 + a1 + a2 + interest]
  /\ input = RenderAccountStatement(doc)
  /\ result = NoResult

NextAccount == ParseBoaCredit

SpecAccount == InitAccount /\ [][NextAccount]_vars

\* C14: in the Bank of America credit format the suffix that ends every
\* description, stored as each transaction's account_number, is the last
\* four digits of the account number after "Account# ", also when the number
\* is followed by spaces before the date range; a number of fewer than four
\* characters is a parse failure, not a crash.
C14_AccountSuffix ==
  pc = "done" =>
     /\ Len(doc.acct) >= 4 =>
          /\ result.st = "ok"
          /\ \A i \in 1..Len(result.val.transactions) :
               result.val.transactions[i].account_number
                 = LastFourDigits(doc.acct)
     /\ Len(doc.acct) < 4 => result.st = "err"

(***************************************************************************)
(* Specification of one record of the Bank of America debit format: the    *)
(* date 1/15/24, a description of up to MaxItems items (a word, an         *)
(* amount-shaped text 20.00, a date 1/16/24) separated by single spaces,   *)
(* the amount of the record, a space or a line break, and what follows:    *)
(* the date of the next record, the section footer, a word, the end of the *)
(* text, or a text of the shape M/D/YY that is no calendar date.           *)
(***************************************************************************)
ItemKinds == {"word", "amount", "date"}

FollowerKinds == {"date", "footer", "word", "end", "baddate"}

RecordFooter == <<DebitFooters[1]>>

ItemText(kind) ==
  CASE kind = "word" -> <<"STORE">>
    [] kind = "amount" -> <<"2", "0", ".", "0", "0">>
    [] kind = "date" -> <<"1", "/", "1", "6", "/", "2", "4">>
    [] kind = "footer" -> RecordFooter
    [] kind = "baddate" -> <<"2", "/", "3", "0", "/", "2", "4">>
    [] kind = "end" -> <<>>

RECURSIVE RenderItems(_)
\* the items, each followed by one space
RenderItems(items) ==
  IF items = <<>> THEN <<>>
  ELSE ItemText(Head(items)) \o <<" ">> \o RenderItems(Tail(items))

RenderDebitRecord(d) ==
  <<"1", "/", "1", "5", "/", "2", "4", " ">> \o RenderItems(d.items)
    \o FormatAmount(d.amt, FALSE) \o <<d.sep>> \o ItemText(d.follower)

InitRecord ==
  /\ pc = "ready"
  /\ \E n \in 0..MaxItems, amt \in {15000, -5000}, sep \in {" ", "\n"},
        follower \in FollowerKinds :
       \E items \in [1..n -> ItemKinds] :
         doc = [fmt |-> "record", items |-> items, amt |-> amt, sep |-> sep,
                follower |-> follower]
  /\ input = RenderDebitRecord(doc)
  /\ result = NoResult

DebitRecord ==
  /\ pc = "ready"
  /\ result' = debit_transaction(RecordFooter, "Deposit", input)
  /\ pc' = "done"
  /\ UNCHANGED <<doc, input>>

NextRecord == DebitRecord

SpecRecord == InitRecord /\ [][NextRecord]_vars

\* what is written after the record's date: the items, the amount, the follower
Written(d) == d.items \o <<"amount", d.follower>>

\* the first written amount that a date or the footer follows; 0 when none
AmountPosition(d) ==
  IF \E k \in 1..(Len(d.items) + 1) :
       Written(d)[k] = "amount"
         /\ Written(d)[k + 1] \in {"date", "baddate", "footer"}
  THEN CHOOSE k \in 1..(Len(d.items) + 1) :
         /\ Written(d)[k] = "amount"
         /\ Written(d)[k + 1] \in {"date", "baddate", "footer"}
         /\ \A j \in 1..(k - 1) :
              ~(Written(d)[j] = "amount"
                  /\ Written(d)[j + 1] \in {"date", "baddate", "footer"})
  ELSE 0

\* the text of the first n items, single spaces between them
ItemsBefore(d, n) ==
  IF n = 0 THEN <<>>
  ELSE Take(RenderItems(Take(d.items, n)),
            Len(RenderItems(Take(d.items, n))) - 1)

\* C15: after the date of a debit record, the description is the characters
\* before the first position where an amount (after optional whitespace) is
\* followed, after optional whitespace, by an M/D/YY date or the section
\* footer; that amount is the amount of the transaction, an earlier
\* amount-shaped text with no date or footer after it stays in the
\* description, and the record fails when there is no such position.
C15_Description ==
  pc = "done" =>
     /\ result.st = "ok" =>
          /\ AmountPosition(doc) > 0
          /\ result.val.description
               = ItemsBefore(doc, AmountPosition(doc) - 1)
          /\ result.val.amount
               = (IF AmountPosition(doc) = Len(doc.items) + 1
                  THEN doc.amt ELSE 2000)
     /\ AmountPosition(doc) = 0 => result.st = "err"
     /\ (AmountPosition(doc) > 0
         /\ Written(doc)[AmountPosition(doc) + 1] # "baddate") =>
          result.st = "ok"

\* a record whose description holds a word and an amount-shaped text with
\* no date after it has been parsed: the description keeps both, and the
\* amount is the one the footer follows
C15_Witness ==
  /\ pc = "done"
  /\ doc.items = <<"word", "amount">>
  /\ doc.follower = "footer"
  /\ result.st = "ok"
  /\ result.val.description = <<"STORE", " ">> \o ItemText("amount")
  /\ result.val.amount = doc.amt

====
